---- MODULE Spec2Model ----
(***************************************************************************)
(* Model of the cached-session gate of the authentication setup            *)
(* (tests/auth.setup.ts, kept in src/tests/api/health.spec.ts lines        *)
(* 118-220): isAuthStateValid and the setup('authenticate') test body.     *)
(*                                                                         *)
(* Time is the value of Date.now() in milliseconds.  Cookie expiries are   *)
(* Unix seconds, as Playwright writes them.                                *)
(***************************************************************************)
EXTENDS Integers, Sequences, FiniteSets, TLC

(* ------------------------------ bounds --------------------------------- *)

\* longest cookie array in the files the gate is applied to
MaxCookies == 2
\* longest cookie array in the file a bootstrap run starts with
MaxCached == 1
\* largest numeric `expires` (seconds) in the file or in the cookie jar
MaxExpires == 2
\* the clock runs over half-second instants 1/2 s .. MaxTick/2 s
MaxTick == 4
\* most cookies the application sets during the login flow
MaxJar == 2
\* most session cookies added to the cookies of a state
MaxAdded == 2
\* longest cookie array in the files whose cookies carry all their members
MaxNamed == 2
\* tests of the api project that use the apiContext fixture
MaxApiTests == 2
\* environment variables a suite can require
MaxVars == 2
\* longest list handed to validateRequiredEnvVars
MaxRequired == 2

(* ----------------------------- constants ------------------------------- *)

\* `Date.now() / 1000`: milliseconds per second
MsPerSecond == 1000

\* instants the clock can show, in milliseconds
Instants == {t * (MsPerSecond \div 2) : t \in 1..MaxTick}

(* ------------------- values found in the state file -------------------- *)

\* the `expires` member of one cookie object, as JSON.parse delivers it
Num(n)      == [t |-> "num", v |-> n]
Undefined   == [t |-> "undefined", v |-> 0]
JsNull      == [t |-> "null", v |-> 0]
NumStr(n)   == [t |-> "numstr", v |-> n]
OtherStr    == [t |-> "str", v |-> 0]
JsTrue      == [t |-> "true", v |-> 1]

ExpiresValues ==
    {Num(n) : n \in -1..MaxExpires}
        \cup {Undefined, JsNull, NumStr(1), OtherStr, JsTrue}

\* one element of the `cookies` array: a cookie object, a JSON null, or a
\* JSON scalar such as 42
CookieObj(e) == [t |-> "cookie", expires |-> e]
NullElem     == [t |-> "null", expires |-> Undefined]
ScalarElem   == [t |-> "scalar", expires |-> Undefined]

Elements == {CookieObj(e) : e \in ExpiresValues} \cup {NullElem, ScalarElem}

SeqsUpTo(S, n) == UNION {[1..k -> S] : k \in 0..n}

\* the parsed document: `top` is the kind of the top-level JSON value,
\* `cookies` the kind of its `cookies` member, `items` the array elements
Doc(top, ck, items, origins) ==
    [top |-> top, cookies |-> ck, items |-> items, origins |-> origins]

NoDoc == Doc("null", "missing", <<>>, 0)

Docs ==
    {Doc("null", "missing", <<>>, 0), Doc("scalar", "missing", <<>>, 0)}
        \cup {Doc("object", ck, <<>>, o) :
                ck \in {"missing", "falsy", "nonarray"}, o \in 0..1}
        \cup {Doc("object", "array", <<>>, 1)}
        \cup {Doc("object", "array", items, 0) :
                items \in SeqsUpTo(Elements, MaxCookies)}

\* what is at AUTH_STATE_PATH
Absent     == [kind |-> "absent", doc |-> NoDoc]
Unreadable == [kind |-> "unreadable", doc |-> NoDoc]
Malformed  == [kind |-> "malformed", doc |-> NoDoc]
Json(d)    == [kind |-> "json", doc |-> d]

FileContents == {Absent, Unreadable, Malformed} \cup {Json(d) : d \in Docs}

\* the contents a bootstrap run is started on: no file, an unusable file, or
\* a short document whose cookies are as Playwright writes them
CachedFiles ==
    {f \in FileContents :
        /\ Len(f.doc.items) <= MaxCached
        /\ \A i \in 1..Len(f.doc.items) :
              /\ f.doc.items[i].t = "cookie"
              /\ f.doc.items[i].expires.t = "num"}

(* --------------------------- isAuthStateValid -------------------------- *)

\* JavaScript ToNumber on the `expires` member
NaN == [nan |-> TRUE, v |-> 0]
ToNumber(e) ==
    CASE e.t = "num"       -> [nan |-> FALSE, v |-> e.v]
      [] e.t = "numstr"    -> [nan |-> FALSE, v |-> e.v]
      [] e.t = "true"      -> [nan |-> FALSE, v |-> 1]
      [] e.t = "null"      -> [nan |-> FALSE, v |-> 0]
      [] e.t = "undefined" -> NaN
      [] e.t = "str"       -> NaN

\* variant: the instant left in milliseconds (the division forgotten)
NowMilliseconds(ms) == [num |-> ms, den |-> 1]

\* const now = Date.now() / 1000, kept exact as a fraction
NowSeconds(ms) == [num |-> ms, den |-> MsPerSecond]

\* variant: n <= q
LessOrEqual(n, q) == n * q.den <= q.num

\* n < q for an integer n and a fraction q
LessThan(n, q) == n * q.den < q.num

\* variant: cookie.expires > 0 && cookie.expires <= now
CookieExpiredAtNow(e, now) ==
    LET n == ToNumber(e)
    IN  /\ ~n.nan
        /\ n.v > 0
        /\ n.v * now.den <= now.num

\* variant: the comparison turned round, cookie.expires > now
CookieExpiredReversed(e, now) ==
    LET n == ToNumber(e)
    IN  /\ ~n.nan
        /\ n.v > 0
        /\ now.num < n.v * now.den

\* variant: cookie.expires !== -1 && cookie.expires < now
CookieExpiredOnlyMinusOne(e, now) ==
    LET n == ToNumber(e)
    IN  /\ ~n.nan
        /\ n.v # -1
        /\ LessThan(n.v, now)

\* variant: cookie.expires < now, without the guard for the sentinel
CookieExpiredNoGuard(e, now) ==
    LET n == ToNumber(e)
    IN  /\ ~n.nan
        /\ LessThan(n.v, now)

\* the callback of `some`: cookie.expires > 0 && cookie.expires < now
CookieExpired(e, now) ==
    LET n == ToNumber(e)
    IN  /\ ~n.nan
        /\ n.v > 0
        /\ LessThan(n.v, now)

\* variant: state.cookies.every(callback)
RECURSIVE Every(_, _)
Every(items, now) ==
    IF items = <<>> THEN "true"
    ELSE LET c == Head(items)
         IN  IF c.t = "null" THEN "throw"
             ELSE IF ~CookieExpired(c.expires, now) THEN "false"
             ELSE Every(Tail(items), now)

\* state.cookies.some(callback): left to right, stops at the first hit;
\* reading `.expires` of a null element throws
RECURSIVE Some(_, _)
Some(items, now) ==
    IF items = <<>> THEN "false"
    ELSE LET c == Head(items)
         IN  IF c.t = "null" THEN "throw"
             ELSE IF CookieExpired(c.expires, now) THEN "true"
             ELSE Some(Tail(items), now)

\* fs.existsSync(fullPath)
ExistsSync(f) == f.kind # "absent"

\* variant: the try block without the check for an empty cookie list
TryBodyNoEmptyCheck(f, ms) ==
    IF f.kind \in {"absent", "unreadable", "malformed"} THEN "throw"
    ELSE LET state == f.doc
         IN  IF state.top = "null" THEN "throw"
             ELSE IF state.top = "scalar" THEN "false"
             ELSE IF state.cookies \in {"missing", "falsy"} THEN "false"
             ELSE IF state.cookies = "nonarray" THEN "throw"
             ELSE LET hasExpired == Some(state.items, NowSeconds(ms))
                  IN  CASE hasExpired = "throw" -> "throw"
                        [] hasExpired = "true"  -> "false"
                        [] hasExpired = "false" -> "true"

\* variant: the try block returning hasExpired instead of !hasExpired
TryBodyNotNegated(f, ms) ==
    IF f.kind \in {"absent", "unreadable", "malformed"} THEN "throw"
    ELSE LET state == f.doc
         IN  IF state.top = "null" THEN "throw"
             ELSE IF state.top = "scalar" THEN "false"
             ELSE IF state.cookies \in {"missing", "falsy"} THEN "false"
             ELSE IF state.cookies = "nonarray" THEN "throw"
             ELSE IF Len(state.items) = 0 THEN "false"
             ELSE Some(state.items, NowSeconds(ms))

\* variant: a state without localStorage origins treated as no session
TryBodyChecksOrigins(f, ms) ==
    IF f.kind \in {"absent", "unreadable", "malformed"} THEN "throw"
    ELSE LET state == f.doc
         IN  IF state.top = "null" THEN "throw"
             ELSE IF state.top = "scalar" THEN "false"
             ELSE IF state.cookies \in {"missing", "falsy"} THEN "false"
             ELSE IF state.cookies = "nonarray" THEN "throw"
             ELSE IF Len(state.items) = 0 \/ state.origins = 0 THEN "false"
             ELSE LET hasExpired == Some(state.items, NowSeconds(ms))
                  IN  CASE hasExpired = "throw" -> "throw"
                        [] hasExpired = "true"  -> "false"
                        [] hasExpired = "false" -> "true"

\* the body of the try block: read, parse, check; readFileSync throws on a
\* path that is missing or cannot be read, JSON.parse on malformed text
TryBody(f, ms) ==
    IF f.kind \in {"absent", "unreadable", "malformed"} THEN "throw"
    ELSE LET state == f.doc
         IN  IF state.top = "null" THEN "throw"
             ELSE IF state.top = "scalar" THEN "false"
             ELSE IF state.cookies \in {"missing", "falsy"} THEN "false"
             ELSE IF state.cookies = "nonarray" THEN "throw"
             ELSE IF Len(state.items) = 0 THEN "false"
             ELSE LET hasExpired == Some(state.items, NowSeconds(ms))
                  IN  CASE hasExpired = "throw" -> "throw"
                        [] hasExpired = "true"  -> "false"
                        [] hasExpired = "false" -> "true"

\* variant: no catch clause, the error reaches the caller
Rethrow(outcome) == outcome

\* the catch clause: every error becomes `false`
Catch(outcome) == IF outcome = "throw" THEN "false" ELSE outcome

\* variant: a missing file reported as valid
IsAuthStateValidMissingOk(f, ms) ==
    IF ~ExistsSync(f) THEN "true"
    ELSE Catch(TryBody(f, ms))

IsAuthStateValid(f, ms) ==
    IF ~ExistsSync(f) THEN "false"
    ELSE Catch(TryBody(f, ms))

(* ------------------------- the browser context ------------------------- *)

\* cookies and storage of the page's browser context; a cookie is kept by
\* its `expires` (-1 for a session cookie), `origins` stands for the
\* localStorage snapshot
Context(cookies, origins) == [cookies |-> cookies, origins |-> origins]

\* a new context: no cookies, no storage
FreshContext == Context(<<>>, 0)

\* what the application can leave in the context after page.goto('/') at
\* instant ms: the browser only stores cookies that have not expired yet
Jars(ms) ==
    {Context(c, o) :
        c \in SeqsUpTo({-1} \cup {e \in 1..MaxExpires : e * MsPerSecond > ms},
                       MaxJar),
        o \in 0..1}

\* the context after the browser has dropped the cookies that expired by ms
Unexpired(ctx, ms) ==
    LET Live(e) == e = -1 \/ e * MsPerSecond > ms
    IN  Context(SelectSeq(ctx.cookies, Live), ctx.origins)

\* the cookies storageState() can find in the context at instant ms: a
\* cookie that expired since the login is still listed, or already dropped
AtCapture(ctx, ms) == {ctx, Unexpired(ctx, ms)}

\* context.storageState(): the document written to the path
StorageStateDoc(ctx) ==
    Json(Doc("object", "array",
             [i \in 1..Len(ctx.cookies) |-> CookieObj(Num(ctx.cookies[i]))],
             ctx.origins))

(* ------------------------------- state --------------------------------- *)

\* the projects of the configuration that depend on `setup`
UIProjects == {"chromium", "firefox", "webkit"}

VARIABLES
    file,         \* content at AUTH_STATE_PATH
    now,          \* Date.now(), milliseconds
    pc,           \* position of the setup test body
    gate,         \* outcome of the isAuthStateValid() call of this attempt
    gateAt,       \* instant at which the gate was evaluated
    fileAtStart,  \* content at AUTH_STATE_PATH when this attempt started
    trace,        \* calls made by this attempt, in order
    log,          \* console output of this attempt
    context,      \* the page's browser context
    retriesLeft,  \* retries the runner still grants the setup test
    writes,       \* times this attempt has written to AUTH_STATE_PATH
    ui,           \* per dependent project: its status and the storage
                  \* state its browser contexts were created from
    api,          \* per test of the api project: its position
    apiContexts,  \* the API request contexts created so far, in order
    env,          \* process.env, per variable name
    requiredVars, \* the argument of validateRequiredEnvVars
    result,       \* how the call of validateRequiredEnvVars ended
    call,         \* the isAuthStateValid() call in progress, statement by
                  \* statement
    runs          \* per suite run started on the same checkout: the
                  \* position of its setup test and what its dependent
                  \* contexts loaded

\* the variables the setup test and its dependents never touch
aux == <<api, apiContexts, env, requiredVars, result, call, runs>>

vars == <<file, now, pc, gate, gateAt, fileAtStart, trace, log, context,
          retriesLeft, writes, ui, aux>>

\* console messages of the setup test
MsgReuse == "[auth] Reusing cached session"
MsgMiss  == "[auth] No valid session found"

\* retries: process.env.CI ? 2 : 1
Retries(ci) == IF ci THEN 2 ELSE 1

\* a dependent project before the runner has reached it
Waiting == [st |-> "waiting", loaded |-> Absent]

\* the tests of the api project that use the apiContext fixture
ApiTests == 1..MaxApiTests

\* a context created without a storageState option
NotLoaded == [kind |-> "notloaded", doc |-> NoDoc]

\* an api test the runner has not started yet
ApiWaiting == [st |-> "waiting", ctx |-> 0, ok |-> TRUE, loaded |-> NotLoaded]

\* the api project before any of its tests has started
ApiIdle ==
    /\ api = [t \in ApiTests |-> ApiWaiting]
    /\ apiContexts = <<>>

\* names of environment variables
VarNames == 1..MaxVars

\* process.env[varName]: undefined, '', whitespace only, a value, or a
\* value with whitespace around it
EnvValues == {"unset", "empty", "blank", "set", "padded"}

\* validateRequiredEnvVars not called
NotCalled == [kind |-> "none", names |-> <<>>]

\* no variable set, nothing validated
EnvIdle ==
    /\ env = [v \in VarNames |-> "unset"]
    /\ requiredVars = <<>>
    /\ result = NotCalled

\* isAuthStateValid() not entered
NotEntered ==
    [pc |-> "idle", raw |-> Absent, nowAt |-> 0, i |-> 0, res |-> "none",
     interfered |-> FALSE]

\* the suite runs that can share the checkout
Procs == {"A", "B"}

\* a suite run that has not reached its setup test
NotStarted ==
    [pc |-> "start", gate |-> "none", context |-> FreshContext,
     writes |-> 0, loaded |-> NotLoaded]

\* everything but the setup test and its dependents at rest
AuxIdle ==
    /\ ApiIdle
    /\ EnvIdle
    /\ call = NotEntered
    /\ runs = [p \in Procs |-> NotStarted]

Init ==
    /\ file \in CachedFiles
    /\ now \in Instants
    /\ pc = "start"
    /\ gate = "none"
    /\ gateAt = 0
    /\ fileAtStart = file
    /\ trace = <<>>
    /\ log = <<>>
    /\ context = FreshContext
    /\ retriesLeft \in {Retries(ci) : ci \in BOOLEAN}
    /\ writes = 0
    /\ ui = [p \in UIProjects |-> Waiting]
    /\ AuxIdle

(* ------------------------------ actions -------------------------------- *)

\* time passes between any two steps
Tick ==
    /\ now + (MsPerSecond \div 2) \in Instants
    /\ now' = now + (MsPerSecond \div 2)
    /\ UNCHANGED <<file, pc, gate, gateAt, fileAtStart, trace, log, context,
                   retriesLeft, writes, ui,
                   aux>>

\* variant: a gate that removes the file it has read
GateConsumes ==
    /\ pc = "start"
    /\ LET r == IsAuthStateValid(file, now)
       IN  /\ gate' = r
           /\ pc' = CASE r = "true"  -> "reuse"
                      [] r = "false" -> "miss"
                      [] r = "throw" -> "failed"
    /\ gateAt' = now
    /\ trace' = Append(trace, "isAuthStateValid")
    /\ file' = Absent
    /\ UNCHANGED <<now, fileAtStart, log, context, retriesLeft, writes, ui,
                   aux>>

\* variant: a gate that deletes a file it could not use
GateRepairs ==
    /\ pc = "start"
    /\ LET r == IsAuthStateValid(file, now)
       IN  /\ gate' = r
           /\ pc' = CASE r = "true"  -> "reuse"
                      [] r = "false" -> "miss"
                      [] r = "throw" -> "failed"
           /\ file' = IF r = "true" THEN file ELSE Absent
    /\ gateAt' = now
    /\ trace' = Append(trace, "isAuthStateValid")
    /\ UNCHANGED <<now, fileAtStart, log, context, retriesLeft, writes, ui,
                   aux>>

\* if (isAuthStateValid()) ... : the call and the branch on its result
Gate ==
    /\ pc = "start"
    /\ LET r == IsAuthStateValid(file, now)
       IN  /\ gate' = r
           /\ pc' = CASE r = "true"  -> "reuse"
                      [] r = "false" -> "miss"
                      [] r = "throw" -> "failed"
    /\ gateAt' = now
    /\ trace' = Append(trace, "isAuthStateValid")
    /\ UNCHANGED <<file, now, fileAtStart, log, context, retriesLeft, writes,
                   ui,
                   aux>>

\* variant: the message without the `return`
LogReuseNoReturn ==
    /\ pc = "reuse"
    /\ log' = Append(log, MsgReuse)
    /\ pc' = "login"
    /\ UNCHANGED <<file, now, gate, gateAt, fileAtStart, trace, context,
                   retriesLeft, writes, ui,
                   aux>>

\* console.log('[auth] Reusing cached session ...'); return;
LogReuse ==
    /\ pc = "reuse"
    /\ log' = Append(log, MsgReuse)
    /\ pc' = "done"
    /\ UNCHANGED <<file, now, gate, gateAt, fileAtStart, trace, context,
                   retriesLeft, writes, ui,
                   aux>>

\* variant: the miss branch without its message
LogMissSilent ==
    /\ pc = "miss"
    /\ pc' = "login"
    /\ UNCHANGED <<file, now, gate, gateAt, fileAtStart, trace, log, context,
                   retriesLeft, writes, ui,
                   aux>>

\* console.log('[auth] No valid session found ...');
LogMiss ==
    /\ pc = "miss"
    /\ log' = Append(log, MsgMiss)
    /\ pc' = "login"
    /\ UNCHANGED <<file, now, gate, gateAt, fileAtStart, trace, context,
                   retriesLeft, writes, ui,
                   aux>>

\* await page.goto('/'): the login flow
Goto ==
    /\ pc = "login"
    /\ \E ctx \in Jars(now) : context' = ctx
    /\ trace' = Append(trace, "goto")
    /\ pc' = "capture"
    /\ UNCHANGED <<file, now, gate, gateAt, fileAtStart, log, retriesLeft,
                   writes, ui,
                   aux>>

\* page.goto('/') rejects (navigation error or timeout): the test fails
GotoFails ==
    /\ pc = "login"
    /\ trace' = Append(trace, "goto")
    /\ pc' = "failed"
    /\ UNCHANGED <<file, now, gate, gateAt, fileAtStart, log, context,
                   retriesLeft, writes, ui,
                   aux>>

\* variant: a placeholder file written before the capture
StorageStateTwice ==
    /\ pc = "capture"
    /\ context' \in AtCapture(context, now)
    /\ file' = StorageStateDoc(context')
    /\ writes' = writes + 2
    /\ trace' = Append(trace, "storageState")
    /\ pc' = "done"
    /\ UNCHANGED <<now, gate, gateAt, fileAtStart, log, retriesLeft, ui,
                   aux>>

\* variant: storageState() called without a path, nothing is written
StorageStateNoPath ==
    /\ pc = "capture"
    /\ trace' = Append(trace, "storageState")
    /\ pc' = "done"
    /\ UNCHANGED <<file, now, gate, gateAt, fileAtStart, log, context,
                   retriesLeft, writes, ui,
                   aux>>

\* await page.context().storageState({ path: AUTH_STATE_PATH })
StorageState ==
    /\ pc = "capture"
    /\ context' \in AtCapture(context, now)
    /\ file' = StorageStateDoc(context')
    /\ writes' = writes + 1
    /\ trace' = Append(trace, "storageState")
    /\ pc' = "done"
    /\ UNCHANGED <<now, gate, gateAt, fileAtStart, log, retriesLeft, ui,
                   aux>>

\* variant: the rejection of storageState swallowed, the test passes
StorageStateFailsSwallowed ==
    /\ pc = "capture"
    /\ \E partial \in BOOLEAN :
          /\ file' = IF partial THEN Malformed ELSE file
          /\ writes' = IF partial THEN writes + 1 ELSE writes
    /\ trace' = Append(trace, "storageState")
    /\ pc' = "done"
    /\ UNCHANGED <<now, gate, gateAt, fileAtStart, log, context, retriesLeft,
                   ui,
                   aux>>

\* storageState rejects because the file cannot be written: the old
\* content stays, or a partial document is left behind; the test fails
StorageStateFails ==
    /\ pc = "capture"
    /\ \E partial \in BOOLEAN :
          /\ file' = IF partial THEN Malformed ELSE file
          /\ writes' = IF partial THEN writes + 1 ELSE writes
    /\ trace' = Append(trace, "storageState")
    /\ pc' = "failed"
    /\ UNCHANGED <<now, gate, gateAt, fileAtStart, log, context, retriesLeft,
                   ui,
                   aux>>

\* the process dies while storageState writes the file: the write is a
\* plain writeFile, so the old document, a part of the new one, or the whole
\* new one is left; nothing runs afterwards
StorageStateCrash ==
    /\ pc = "capture"
    /\ context' \in AtCapture(context, now)
    /\ file' \in {file, Malformed, StorageStateDoc(context')}
    /\ writes' = IF file' = file THEN writes ELSE writes + 1
    /\ trace' = Append(trace, "storageState")
    /\ pc' = "crashed"
    /\ UNCHANGED <<now, gate, gateAt, fileAtStart, log, retriesLeft, ui,
                   aux>>

\* variant: a retry that is not counted against the configured retries
RetryForFree ==
    /\ pc = "failed"
    /\ retriesLeft > 0
    /\ pc' = "start"
    /\ gate' = "none"
    /\ gateAt' = 0
    /\ fileAtStart' = file
    /\ trace' = <<>>
    /\ log' = <<>>
    /\ context' = FreshContext
    /\ writes' = 0
    /\ UNCHANGED <<file, now, ui, retriesLeft, aux>>

\* the runner retries a failed test with a new page and context
Retry ==
    /\ pc = "failed"
    /\ retriesLeft > 0
    /\ retriesLeft' = retriesLeft - 1
    /\ pc' = "start"
    /\ gate' = "none"
    /\ gateAt' = 0
    /\ fileAtStart' = file
    /\ trace' = <<>>
    /\ log' = <<>>
    /\ context' = FreshContext
    /\ writes' = 0
    /\ UNCHANGED <<file, now, ui,
                   aux>>

\* variant: a project without `dependencies`, started at any time
StartUINoDependency(p) ==
    /\ ui[p].st = "waiting"
    /\ ui' = [ui EXCEPT ![p] = [st |-> "running", loaded |-> file]]
    /\ UNCHANGED <<file, now, pc, gate, gateAt, fileAtStart, trace, log,
                   context, retriesLeft, writes,
                   aux>>

\* variant: a project whose tests save their own storage state to the path
StartUISaves(p) ==
    /\ pc = "done"
    /\ ui[p].st = "waiting"
    /\ ui' = [ui EXCEPT ![p] = [st |-> "running", loaded |-> file]]
    /\ file' = StorageStateDoc(FreshContext)
    /\ UNCHANGED <<now, pc, gate, gateAt, fileAtStart, trace, log, context,
                   retriesLeft, writes,
                   aux>>

\* dependencies: ['setup'] and use.storageState: AUTH_STATE_PATH: once the
\* setup project has passed, project p starts and its browser contexts are
\* created from the file
StartUI(p) ==
    /\ pc = "done"
    /\ ui[p].st = "waiting"
    /\ ui' = [ui EXCEPT ![p] = [st |-> "running", loaded |-> file]]
    /\ UNCHANGED <<file, now, pc, gate, gateAt, fileAtStart, trace, log,
                   context, retriesLeft, writes,
                   aux>>

\* the setup project has failed for good: its dependents are skipped
SkipUI ==
    /\ pc = "failed"
    /\ retriesLeft = 0
    /\ \E p \in UIProjects : ui[p].st = "waiting"
    /\ ui' = [p \in UIProjects |-> [st |-> "skipped", loaded |-> Absent]]
    /\ UNCHANGED <<file, now, pc, gate, gateAt, fileAtStart, trace, log,
                   context, retriesLeft, writes,
                   aux>>

Next ==
    \/ Tick
    \/ Gate
    \/ LogReuse
    \/ LogMiss
    \/ Goto
    \/ GotoFails
    \/ StorageState
    \/ StorageStateFails
    \/ StorageStateCrash
    \/ Retry
    \/ \E p \in UIProjects : StartUI(p)
    \/ SkipUI

Spec == Init /\ [][Next]_vars

(* ----------------- the gate alone, on every file content --------------- *)

\* isAuthStateValid() applied to any content of the path at any instant
InitGate ==
    /\ file \in FileContents
    /\ now \in Instants
    /\ pc = "start"
    /\ gate = "none"
    /\ gateAt = 0
    /\ fileAtStart = file
    /\ trace = <<>>
    /\ log = <<>>
    /\ context = FreshContext
    /\ retriesLeft \in {Retries(ci) : ci \in BOOLEAN}
    /\ writes = 0
    /\ ui = [p \in UIProjects |-> Waiting]
    /\ AuxIdle

NextGate ==
    \/ Tick
    \/ Gate

SpecGate == InitGate /\ [][NextGate]_vars

(* ------------ the gate on cookies with all their members --------------- *)

\* name, value, domain and path of the cookies an application sets
Identities ==
    {[name |-> "sid",  value |-> "a", domain |-> "app.test", path |-> "/"],
     [name |-> "sid",  value |-> "b", domain |-> "app.test", path |-> "/"],
     [name |-> "csrf", value |-> "a", domain |-> "cdn.test", path |-> "/api"]}

\* a cookie object as storageState() writes it
NamedCookie(id, e) ==
    [t |-> "cookie", name |-> id.name, value |-> id.value,
     domain |-> id.domain, path |-> id.path, expires |-> e]

\* session states with up to MaxNamed such cookies, with and without origins
NamedFiles ==
    {Json(Doc("object", "array", items, o)) :
        items \in SeqsUpTo({NamedCookie(id, Num(n)) :
                               id \in Identities, n \in -1..MaxExpires},
                           MaxNamed),
        o \in 0..1}

InitFields ==
    /\ file \in NamedFiles
    /\ now \in Instants
    /\ pc = "start"
    /\ gate = "none"
    /\ gateAt = 0
    /\ fileAtStart = file
    /\ trace = <<>>
    /\ log = <<>>
    /\ context = FreshContext
    /\ retriesLeft \in {Retries(ci) : ci \in BOOLEAN}
    /\ writes = 0
    /\ ui = [p \in UIProjects |-> Waiting]
    /\ AuxIdle

NextFields ==
    \/ Tick
    \/ Gate

SpecFields == InitFields /\ [][NextFields]_vars

(* ------------- the api project and the apiContext fixture -------------- *)

\* the setup test, its dependents and the clock
core == <<file, now, pc, gate, gateAt, fileAtStart, trace, log, context,
          retriesLeft, writes, ui>>

\* a request context just created by playwright.request.newContext()
NewContext == [open |-> TRUE, disposals |-> 0, usedClosed |-> FALSE]

\* variant: the api project made to depend on the setup project
ApiNewContextAfterSetup(t) ==
    /\ pc = "done"
    /\ api[t].st = "waiting"
    /\ apiContexts' = Append(apiContexts, NewContext)
    /\ api' = [api EXCEPT ![t] = [st |-> "body", ctx |-> Len(apiContexts) + 1,
                                  ok |-> TRUE, loaded |-> NotLoaded]]
    /\ UNCHANGED <<core, env, requiredVars, result, call,
                   runs>>

\* the fixture up to `await use(context)`: the api project has no
\* dependencies and no storageState, the context is created from the base
\* URL and two headers only
ApiNewContext(t) ==
    /\ api[t].st = "waiting"
    /\ apiContexts' = Append(apiContexts, NewContext)
    /\ api' = [api EXCEPT ![t] = [st |-> "body", ctx |-> Len(apiContexts) + 1,
                                  ok |-> TRUE, loaded |-> NotLoaded]]
    /\ UNCHANGED <<core, env, requiredVars, result, call,
                   runs>>

\* the test body: requests through the context, then passes or fails
ApiBody(t) ==
    /\ api[t].st = "body"
    /\ \E ok \in BOOLEAN :
          api' = [api EXCEPT ![t].st = "teardown", ![t].ok = ok]
    /\ apiContexts' =
          [apiContexts EXCEPT ![api[t].ctx].usedClosed =
              @ \/ ~apiContexts[api[t].ctx].open]
    /\ UNCHANGED <<core, env, requiredVars, result, call,
                   runs>>

\* variant: the fixture returns after use() without disposing
ApiDisposeForgotten(t) ==
    /\ api[t].st = "teardown"
    /\ api' = [api EXCEPT ![t].st = "ended"]
    /\ UNCHANGED <<core, apiContexts, env, requiredVars, result, call,
                   runs>>

\* the fixture after use() has returned: await context.dispose()
ApiDispose(t) ==
    /\ api[t].st = "teardown"
    /\ apiContexts' =
          [apiContexts EXCEPT ![api[t].ctx].open = FALSE,
                              ![api[t].ctx].disposals = @ + 1]
    /\ api' = [api EXCEPT ![t].st = "ended"]
    /\ UNCHANGED <<core, env, requiredVars, result, call,
                   runs>>

\* a suite run seen from the api project: no cached session or a cached
\* session cookie; the setup test hits, or misses and fails at the login
InitApi ==
    /\ file \in {Absent, StorageStateDoc(Context(<<-1>>, 0))}
    /\ now = MsPerSecond \div 2
    /\ pc = "start"
    /\ gate = "none"
    /\ gateAt = 0
    /\ fileAtStart = file
    /\ trace = <<>>
    /\ log = <<>>
    /\ context = FreshContext
    /\ retriesLeft \in {Retries(ci) : ci \in BOOLEAN}
    /\ writes = 0
    /\ ui = [p \in UIProjects |-> Waiting]
    /\ AuxIdle

NextApi ==
    \/ Gate
    \/ LogReuse
    \/ LogMiss
    \/ GotoFails
    \/ Retry
    \/ SkipUI
    \/ \E p \in UIProjects : StartUI(p)
    \/ \E t \in ApiTests : ApiNewContext(t)
    \/ \E t \in ApiTests : ApiBody(t)
    \/ \E t \in ApiTests : ApiDispose(t)

SpecApi == InitApi /\ [][NextApi]_vars

(* ---------------------- validateRequiredEnvVars ------------------------ *)

\* !process.env[varName]
Falsy(value) == value \in {"unset", "empty"}

\* String.prototype.trim on a value that is a string
Trim(value) ==
    CASE value = "blank"  -> "empty"
      [] value = "padded" -> "set"
      [] OTHER            -> value

\* variant: the filter without the trim
IsMissingNoTrim(e, varName) == Falsy(e[varName])

\* the filter callback:
\* !process.env[varName] || process.env[varName]!.trim() === ''
IsMissing(e, varName) ==
    IF Falsy(e[varName]) THEN TRUE ELSE Trim(e[varName]) = "empty"

\* requiredVars.filter(callback)
Missing(e, required) ==
    LET Test(varName) == IsMissing(e, varName)
    IN  SelectSeq(required, Test)

\* throws an Error whose message joins the missing names, or returns
ValidateRequiredEnvVars(e, required) ==
    LET missing == Missing(e, required)
    IN  IF Len(missing) > 0
        THEN [kind |-> "thrown", names |-> missing]
        ELSE [kind |-> "returned", names |-> <<>>]

\* one call of validateRequiredEnvVars(requiredVars)
Validate ==
    /\ result = NotCalled
    /\ result' = ValidateRequiredEnvVars(env, requiredVars)
    /\ UNCHANGED <<core, api, apiContexts, env, requiredVars, call, runs>>

\* any environment, any list of required names
InitEnv ==
    /\ file = Absent
    /\ now = MsPerSecond \div 2
    /\ pc = "start"
    /\ gate = "none"
    /\ gateAt = 0
    /\ fileAtStart = file
    /\ trace = <<>>
    /\ log = <<>>
    /\ context = FreshContext
    /\ retriesLeft = Retries(FALSE)
    /\ writes = 0
    /\ ui = [p \in UIProjects |-> Waiting]
    /\ ApiIdle
    /\ env \in [VarNames -> EnvValues]
    /\ requiredVars \in SeqsUpTo(VarNames, MaxRequired)
    /\ result = NotCalled
    /\ call = NotEntered
    /\ runs = [p \in Procs |-> NotStarted]

NextEnv == Validate

SpecEnv == InitEnv /\ [][NextEnv]_vars

(* ------------- isAuthStateValid(), statement by statement -------------- *)

\* the api project and the environment check
rest == <<api, apiContexts, env, requiredVars, result, runs>>

\* the statements of the try block before `const now`: "throw", "false",
\* or "go" when the cookie list is a non-empty array
BeforeNow(f) ==
    IF f.kind \in {"absent", "unreadable", "malformed"} THEN "throw"
    ELSE LET state == f.doc
         IN  IF state.top = "null" THEN "throw"
             ELSE IF state.top = "scalar" THEN "false"
             ELSE IF state.cookies \in {"missing", "falsy"} THEN "false"
             ELSE IF state.cookies = "nonarray" THEN "throw"
             ELSE IF Len(state.items) = 0 THEN "false"
             ELSE "go"

\* if (!fs.existsSync(fullPath)) return false
CallExists ==
    /\ pc = "start"
    /\ call.pc = "idle"
    /\ call' = IF ExistsSync(file)
               THEN [call EXCEPT !.pc = "read"]
               ELSE [call EXCEPT !.pc = "ret", !.res = "false"]
    /\ UNCHANGED <<core, rest>>

\* variant: the read and the parse outside the try block
CallReadNoTry ==
    /\ call.pc = "read"
    /\ LET o == BeforeNow(file)
       IN  call' = [call EXCEPT !.raw = file,
                                !.pc = IF o = "go" THEN "now" ELSE "ret",
                                !.res = IF o = "go" THEN "none" ELSE o]
    /\ UNCHANGED <<core, rest>>

\* readFileSync, JSON.parse and the check of state.cookies, on the content
\* the path has at the moment of the read
CallRead ==
    /\ call.pc = "read"
    /\ LET o == BeforeNow(file)
       IN  call' = [call EXCEPT !.raw = file,
                                !.pc = IF o = "go" THEN "now" ELSE "ret",
                                !.res = IF o = "go" THEN "none" ELSE Catch(o)]
    /\ UNCHANGED <<core, rest>>

\* const now = Date.now() / 1000
CallNow ==
    /\ call.pc = "now"
    /\ call' = [call EXCEPT !.nowAt = now, !.pc = "some", !.i = 1]
    /\ UNCHANGED <<core, rest>>

\* variant: Date.now() read again inside the callback
CallCallbackFreshNow ==
    /\ call.pc = "some"
    /\ LET items == call.raw.doc.items
           c == items[call.i]
       IN  call' =
             IF c.t = "null"
             THEN [call EXCEPT !.pc = "ret", !.res = Catch("throw")]
             ELSE IF CookieExpired(c.expires, NowSeconds(now))
             THEN [call EXCEPT !.pc = "ret", !.res = "false"]
             ELSE IF call.i = Len(items)
             THEN [call EXCEPT !.pc = "ret", !.res = "true"]
             ELSE [call EXCEPT !.i = @ + 1]
    /\ UNCHANGED <<core, rest>>

\* one invocation of the callback of `some`, on cookie number i, against
\* the `now` computed before the loop; then `return !hasExpired`
CallCallback ==
    /\ call.pc = "some"
    /\ LET items == call.raw.doc.items
           c == items[call.i]
       IN  call' =
             IF c.t = "null"
             THEN [call EXCEPT !.pc = "ret", !.res = Catch("throw")]
             ELSE IF CookieExpired(c.expires, NowSeconds(call.nowAt))
             THEN [call EXCEPT !.pc = "ret", !.res = "false"]
             ELSE IF call.i = Len(items)
             THEN [call EXCEPT !.pc = "ret", !.res = "true"]
             ELSE [call EXCEPT !.i = @ + 1]
    /\ UNCHANGED <<core, rest>>

\* the call returns (or throws) into `if (isAuthStateValid())`
CallReturn ==
    /\ pc = "start"
    /\ call.pc = "ret"
    /\ gate' = call.res
    /\ pc' = CASE call.res = "true"  -> "reuse"
               [] call.res = "false" -> "miss"
               [] call.res = "throw" -> "failed"
    /\ gateAt' = call.nowAt
    /\ trace' = Append(trace, "isAuthStateValid")
    /\ call' = [call EXCEPT !.pc = "done"]
    /\ UNCHANGED <<file, now, fileAtStart, log, context, retriesLeft, writes,
                   ui, rest>>

\* what another process can leave at the path: nothing, a truncated file,
\* or its own capture
Intrusions ==
    {Absent, Malformed,
     StorageStateDoc(Context(<<-1>>, 0)), StorageStateDoc(Context(<<1>>, 0))}

\* another process deletes, truncates or replaces the file between the
\* existence check and the read
Interfere ==
    /\ call.pc = "read"
    /\ ~call.interfered
    /\ file' \in Intrusions \ {file}
    /\ call' = [call EXCEPT !.interfered = TRUE]
    /\ UNCHANGED <<now, pc, gate, gateAt, fileAtStart, trace, log, context,
                   retriesLeft, writes, ui, rest>>

\* elements of the cookie arrays the call is followed on
RaceElements == {CookieObj(Num(n)) : n \in -1..MaxExpires} \cup {NullElem}

RaceFiles ==
    {Absent, Unreadable, Malformed}
        \cup {Json(Doc("object", "array", items, 0)) :
                items \in SeqsUpTo(RaceElements, MaxCookies)}

InitRace ==
    /\ file \in RaceFiles
    /\ now \in Instants
    /\ pc = "start"
    /\ gate = "none"
    /\ gateAt = 0
    /\ fileAtStart = file
    /\ trace = <<>>
    /\ log = <<>>
    /\ context = FreshContext
    /\ retriesLeft = Retries(FALSE)
    /\ writes = 0
    /\ ui = [p \in UIProjects |-> Waiting]
    /\ AuxIdle

NextRace ==
    \/ Tick
    \/ Interfere
    \/ CallExists
    \/ CallRead
    \/ CallNow
    \/ CallCallback
    \/ CallReturn
    \/ LogReuse
    \/ LogMiss

SpecRace == InitRace /\ [][NextRace]_vars

(* ------------- two suite runs on the same state path ------------------- *)

\* everything of the single run but the file
single == <<now, pc, gate, gateAt, fileAtStart, trace, log, context,
            retriesLeft, writes, ui, api, apiContexts, env, requiredVars,
            result, call>>

\* variant: a gate that waits while another run is between its gate and
\* the end of its capture
RunGateLocked(p) ==
    /\ runs[p].pc = "start"
    /\ \A q \in Procs \ {p} : runs[q].pc \in {"start", "done"}
    /\ LET r == IsAuthStateValid(file, now)
       IN  runs' = [runs EXCEPT ![p].gate = r,
                                ![p].pc = IF r = "true" THEN "done"
                                          ELSE "login"]
    /\ UNCHANGED <<file, single>>

\* if (isAuthStateValid()) { ...; return; } in run p
RunGate(p) ==
    /\ runs[p].pc = "start"
    /\ LET r == IsAuthStateValid(file, now)
       IN  runs' = [runs EXCEPT ![p].gate = r,
                                ![p].pc = IF r = "true" THEN "done"
                                          ELSE "login"]
    /\ UNCHANGED <<file, single>>

\* the login flow of run p: the application sets a session cookie
RunGoto(p) ==
    /\ runs[p].pc = "login"
    /\ \E o \in 0..1 :
          runs' = [runs EXCEPT ![p].context = Context(<<-1>>, o),
                               ![p].pc = "capture"]
    /\ UNCHANGED <<file, single>>

\* storageState({ path }) of run p opens the file for writing: the old
\* content is gone, the new one not yet there
RunWriteBegin(p) ==
    /\ runs[p].pc = "capture"
    /\ file' = Malformed
    /\ runs' = [runs EXCEPT ![p].pc = "writing"]
    /\ UNCHANGED single

\* the write of run p completes
RunWriteEnd(p) ==
    /\ runs[p].pc = "writing"
    /\ file' = StorageStateDoc(runs[p].context)
    /\ runs' = [runs EXCEPT ![p].pc = "done", ![p].writes = @ + 1]
    /\ UNCHANGED single

\* a dependent project of run p creates its context from the path
RunStartUI(p) ==
    /\ runs[p].pc = "done"
    /\ runs[p].loaded = NotLoaded
    /\ runs' = [runs EXCEPT ![p].loaded = file]
    /\ UNCHANGED <<file, single>>

\* two runs started on no cache, an empty one, or a valid one
InitTwo ==
    /\ file \in {Absent, StorageStateDoc(FreshContext),
                 StorageStateDoc(Context(<<-1>>, 0))}
    /\ now = MsPerSecond \div 2
    /\ pc = "start"
    /\ gate = "none"
    /\ gateAt = 0
    /\ fileAtStart = file
    /\ trace = <<>>
    /\ log = <<>>
    /\ context = FreshContext
    /\ retriesLeft = Retries(FALSE)
    /\ writes = 0
    /\ ui = [p \in UIProjects |-> Waiting]
    /\ AuxIdle

NextTwo ==
    \E p \in Procs :
        \/ RunGate(p)
        \/ RunGoto(p)
        \/ RunWriteBegin(p)
        \/ RunWriteEnd(p)
        \/ RunStartUI(p)

SpecTwo == InitTwo /\ [][NextTwo]_vars

(* ===================== properties of the gate ========================== *)

\* the gate of this attempt has been evaluated (on fileAtStart, at gateAt)
GateDone == gate # "none"

\* a persisted session state as section 6 describes it: an object whose
\* `cookies` member is an array of cookie objects, each `expires` a number
\* or absent
IsSessionState(f) ==
    /\ f.kind = "json"
    /\ f.doc.top = "object"
    /\ f.doc.cookies = "array"
    /\ \A i \in 1..Len(f.doc.items) :
          /\ f.doc.items[i].t = "cookie"
          /\ f.doc.items[i].expires.t \in {"num", "undefined"}

NonEmptySession(f) == IsSessionState(f) /\ Len(f.doc.items) > 0

\* the `expires` members of the cookies of a session state
ExpiresOf(f) == {f.doc.items[i].expires : i \in 1..Len(f.doc.items)}

\* section 6: `-1` or absent mean "no fixed expiry"
NoFixedExpiry(e) == e.t = "undefined" \/ (e.t = "num" /\ e.v = -1)

\* comparisons of an expiry in seconds with an instant in milliseconds
Before(e, ms)  == e.v * MsPerSecond < ms
AtInstant(e, ms) == e.v * MsPerSecond = ms
After(e, ms)   == e.v * MsPerSecond > ms

\* an `expires` that names an instant: a positive number of seconds
FiniteExpiry(e) == e.t = "num" /\ e.v > 0

\* C1 as stated: a non-empty session state is valid if and only if every
\* cookie with a finite expiry expires strictly later than the check instant.
C1_Original ==
    (GateDone /\ NonEmptySession(fileAtStart)) =>
        (gate = "true" <=>
            \A e \in ExpiresOf(fileAtStart) :
                FiniteExpiry(e) => After(e, gateAt))

\* C1 amended: a non-empty session state is valid if and only if every cookie
\* whose `expires` is a positive number expires at or after the check instant.
C1_ValidIffNoPositiveExpiryBeforeNow ==
    (GateDone /\ NonEmptySession(fileAtStart)) =>
        (gate = "true" <=>
            \A e \in ExpiresOf(fileAtStart) :
                FiniteExpiry(e) => ~Before(e, gateAt))

C1_Witness ==
    /\ GateDone /\ NonEmptySession(fileAtStart)
    /\ Len(fileAtStart.doc.items) = 2
    /\ gate = "false"
    /\ \E e \in ExpiresOf(fileAtStart) : FiniteExpiry(e) /\ Before(e, gateAt)
    /\ \E e \in ExpiresOf(fileAtStart) : FiniteExpiry(e) /\ After(e, gateAt)

\* C2 as stated: a session state with at least one cookie whose `expires`
\* value (a number other than the sentinel -1) is strictly before the check
\* instant is invalid.
C2_Original ==
    (/\ GateDone /\ IsSessionState(fileAtStart)
     /\ \E e \in ExpiresOf(fileAtStart) :
            ~NoFixedExpiry(e) /\ Before(e, gateAt))
        => gate = "false"

\* C2 amended: a session state with at least one cookie whose `expires` is a
\* positive number strictly before the check instant is invalid, whatever the
\* other cookies are.
C2_PositiveExpiryBeforeNowInvalid ==
    (/\ GateDone /\ IsSessionState(fileAtStart)
     /\ \E e \in ExpiresOf(fileAtStart) :
            FiniteExpiry(e) /\ Before(e, gateAt))
        => gate = "false"

C2_Witness ==
    /\ GateDone /\ IsSessionState(fileAtStart)
    /\ Len(fileAtStart.doc.items) = 2
    /\ fileAtStart.doc.items[1].expires = Num(-1)
    /\ fileAtStart.doc.items[2].expires.t = "num"
    /\ fileAtStart.doc.items[2].expires.v > 0
    /\ Before(fileAtStart.doc.items[2].expires, gateAt)
    /\ gate = "false"

\* C3: a cookie expiring at exactly the check instant does not invalidate the
\* state: a non-empty session state with such a cookie and no cookie with a
\* positive expiry before the instant is valid.
C3_ExpiryAtNowIsValid ==
    (/\ GateDone /\ NonEmptySession(fileAtStart)
     /\ \E e \in ExpiresOf(fileAtStart) : e.t = "num" /\ AtInstant(e, gateAt)
     /\ \A e \in ExpiresOf(fileAtStart) :
            FiniteExpiry(e) => (AtInstant(e, gateAt) \/ After(e, gateAt)))
        => gate = "true"

C3_Witness ==
    /\ GateDone /\ NonEmptySession(fileAtStart)
    /\ \A e \in ExpiresOf(fileAtStart) : e.t = "num" /\ AtInstant(e, gateAt)
    /\ gate = "true"

\* C4: a session state with at least one cookie in which every cookie has
\* `expires` in the future relative to the check instant is valid.
C4_AllFutureIsValid ==
    (/\ GateDone /\ NonEmptySession(fileAtStart)
     /\ \A e \in ExpiresOf(fileAtStart) : e.t = "num" /\ After(e, gateAt))
        => gate = "true"

C4_Witness ==
    /\ GateDone /\ NonEmptySession(fileAtStart)
    /\ Len(fileAtStart.doc.items) = 2
    /\ \A e \in ExpiresOf(fileAtStart) : e.t = "num" /\ After(e, gateAt)
    /\ gate = "true"

\* the `cookies` collection of the document is empty or missing
NoCookies(f) ==
    /\ f.kind = "json"
    /\ f.doc.top = "object"
    /\ \/ f.doc.cookies = "missing"
       \/ f.doc.cookies = "array" /\ Len(f.doc.items) = 0

\* C5: a state whose cookie collection is empty or missing is invalid, at
\* every check instant and whatever `origins` holds.
C5_NoCookiesInvalid ==
    (GateDone /\ NoCookies(fileAtStart)) => gate = "false"

C5_Witness ==
    /\ GateDone /\ NoCookies(fileAtStart)
    /\ fileAtStart.doc.cookies = "array"
    /\ fileAtStart.doc.origins = 1
    /\ gate = "false"

\* content that cannot be read or parsed as a session state
NotASessionState(f) == f.kind # "absent" /\ ~IsSessionState(f)

\* C6 as stated: for any content that cannot be read or parsed as a session
\* state (malformed JSON, truncated file, JSON of the wrong shape, read
\* failure) the gate returns false and does not raise.
C6_Original ==
    (GateDone /\ NotASessionState(fileAtStart)) => gate = "false"

\* content on which the read, the parse or the check throws, or in which no
\* non-empty `cookies` array is found
Unusable(f) ==
    \/ f.kind \in {"unreadable", "malformed"}
    \/ /\ f.kind = "json"
       /\ \/ f.doc.top # "object"
          \/ f.doc.cookies # "array"
          \/ Len(f.doc.items) = 0
          \/ \E i \in 1..Len(f.doc.items) : f.doc.items[i].t = "null"

\* C6 amended: the gate never raises, whatever the content; it returns false
\* for content that cannot be read, is not valid JSON, or is JSON without a
\* non-empty `cookies` array of non-null entries.
C6_UnusableIsFalseNeverRaises ==
    GateDone =>
        /\ gate \in {"true", "false"}
        /\ Unusable(fileAtStart) => gate = "false"

C6_Witness ==
    /\ GateDone
    /\ fileAtStart = Malformed
    /\ gate = "false"
    /\ pc = "miss"

\* C7: when no file exists at the state path the gate returns false.
C7_AbsentInvalid ==
    (GateDone /\ fileAtStart = Absent) => gate = "false"

C7_Witness ==
    /\ GateDone
    /\ fileAtStart = Absent
    /\ gate = "false"
    /\ trace = <<"isAuthStateValid">>

\* cookies with no fixed expiry: `expires` of -1 or absent
SessionCookies == {CookieObj(Num(-1)), CookieObj(Undefined)}

\* the file with the `cookies` array replaced by items
WithItems(f, items) ==
    Json(Doc(f.doc.top, f.doc.cookies, items, f.doc.origins))

\* every way of putting up to MaxAdded session cookies before and after the
\* cookies of f
Extended(f) ==
    UNION {{WithItems(f, pre \o f.doc.items \o post) :
               post \in SeqsUpTo(SessionCookies, MaxAdded - Len(pre))} :
           pre \in SeqsUpTo(SessionCookies, MaxAdded)}

\* C8: cookies with no fixed expiry (`expires` of -1 or absent) never
\* invalidate: a state the gate found valid is still valid, at the same
\* instant, after any number of such cookies are added to it.
C8_SessionCookiesNeverInvalidate ==
    (GateDone /\ gate = "true") =>
        \A g \in Extended(fileAtStart) :
            IsAuthStateValid(g, gateAt) = "true"

C8_Witness ==
    /\ GateDone /\ gate = "true"
    /\ IsSessionState(fileAtStart)
    /\ \E e \in ExpiresOf(fileAtStart) : FiniteExpiry(e)
    /\ \E e \in ExpiresOf(fileAtStart) : e = Num(-1)
    /\ pc = "reuse"

(* ================== properties of the bootstrap step =================== *)

\* C9: when the gate reports valid the bootstrap performs no login flow and
\* no capture; the session file is unchanged when the step finishes.
C9_HitLeavesFileUntouched ==
    (gate = "true" /\ pc = "done") =>
        /\ file = fileAtStart
        /\ trace = <<"isAuthStateValid">>
        /\ context = FreshContext

C9_Witness ==
    /\ gate = "true"
    /\ pc = "done"
    /\ file = fileAtStart
    /\ now > gateAt

\* the calls of an attempt whose gate reported false, in order
MissCalls == <<"isAuthStateValid", "goto", "storageState">>

IsPrefix(s, t) == Len(s) <= Len(t) /\ s = SubSeq(t, 1, Len(s))

\* C10: when the gate reports false the bootstrap performs the login sequence
\* and then the capture, in that order; on successful completion the session
\* file holds the state of the context at the capture.
C10_MissLoginThenCapture ==
    gate = "false" =>
        /\ IsPrefix(trace, MissCalls)
        /\ pc = "done" =>
              /\ trace = MissCalls
              /\ file = StorageStateDoc(context)

C10_Witness ==
    /\ gate = "false"
    /\ pc = "done"
    /\ fileAtStart.kind = "json"
    /\ file # fileAtStart
    /\ Len(context.cookies) > 0

\* the attempt has captured: gate false, login and storageState completed
Captured == pc = "done" /\ trace = MissCalls

Running(p) == ui[p].st = "running"

\* the attempt is over: passed, failed, or the process died
Finished == pc \in {"done", "failed", "crashed"}

\* C12: the setup step has run to completion before any test of a dependent
\* project (chromium, firefox, webkit) starts: no dependent context loads
\* the file while the gate, the login or the capture is in progress.
C12_SetupBeforeDependents ==
    \A p \in UIProjects : Running(p) => pc = "done"

C12_Witness ==
    /\ pc = "done"
    /\ gate = "false"
    /\ Running("chromium")
    /\ ~Running("firefox")
    /\ ui["chromium"].loaded = file

\* C13: a failure to write the file during capture fails the attempt, and no
\* dependent project then starts with the missing or stale session: a
\* dependent that runs after a miss was created from the captured state.
C13_CaptureFailureIsFatal ==
    /\ pc = "failed" => \A p \in UIProjects : ~Running(p)
    /\ \A p \in UIProjects :
          (Running(p) /\ gate = "false") =>
              /\ trace = MissCalls
              /\ ui[p].loaded = StorageStateDoc(context)

C13_Witness ==
    /\ pc = "failed"
    /\ trace = MissCalls
    /\ retriesLeft = 0
    /\ file = Malformed
    /\ fileAtStart # Malformed
    /\ \A p \in UIProjects : ui[p].st = "skipped"

C15_Original ==
    Finished =>
        /\ gate = "false" => writes = 1
        /\ gate = "true" => writes = 0

\* C15 amended: an attempt in which the gate reports invalid and which
\* completes writes the file exactly once; one whose login or capture fails
\* writes it at most once; one in which the gate reports valid never writes.
C15_WritesPerAttempt ==
    /\ writes <= 1
    /\ (pc = "done" /\ gate = "false") => writes = 1
    /\ gate = "true" => writes = 0

C15_Witness ==
    /\ pc = "done"
    /\ gate = "false"
    /\ writes = 1
    /\ fileAtStart.kind = "absent"

\* C16: once the setup step has finished nothing writes the file: every
\* dependent context was created from the content the file still has, so all
\* of them loaded the same content.
C16_FileStableAfterSetup ==
    \A p \in UIProjects :
        Running(p) =>
            /\ ui[p].loaded = file
            /\ \A q \in UIProjects : Running(q) => ui[q].loaded = ui[p].loaded

C16_Witness ==
    /\ \A p \in UIProjects : Running(p) /\ ui[p].loaded = file
    /\ now > gateAt

\* C17: the gate is read-only: whatever it returns, the file and the rest of
\* the state are as they were before the call.
C17_GateReadOnly ==
    (GateDone /\ pc \in {"reuse", "miss"}) =>
        /\ file = fileAtStart
        /\ context = FreshContext
        /\ log = <<>>
        /\ writes = 0

C17_Witness ==
    /\ GateDone
    /\ fileAtStart = Unreadable
    /\ file = Unreadable
    /\ gate = "false"

ExpiresOnly(f) ==
    Json(Doc(f.doc.top, f.doc.cookies,
             [i \in 1..Len(f.doc.items) |-> CookieObj(f.doc.items[i].expires)],
             0))

\* C19: the gate ignores `origins` and the name, value, domain and path of
\* every cookie: its result is the result on the state reduced to the
\* sequence of `expires` values, so two files that agree on that sequence
\* get the same result at the same instant.
C19_OnlyExpiresMatters ==
    GateDone => gate = IsAuthStateValid(ExpiresOnly(fileAtStart), gateAt)

C19_Witness ==
    /\ GateDone
    /\ gate = "true"
    /\ fileAtStart.doc.origins = 0
    /\ Len(fileAtStart.doc.items) = 2
    /\ fileAtStart.doc.items[1].name # fileAtStart.doc.items[2].name
    /\ fileAtStart.doc.items[1].expires # fileAtStart.doc.items[2].expires
    /\ fileAtStart # ExpiresOnly(fileAtStart)

\* C20: an attempt emits exactly one of the two messages, the one of the
\* branch it takes: the reuse message if and only if the login is skipped,
\* the miss message if and only if the login flow is started, and before it.
C20_OneMessagePerAttempt ==
    /\ Len(log) <= 1
    /\ Finished => Len(log) = 1
    /\ log = <<MsgReuse>> => (gate = "true" /\ trace = <<"isAuthStateValid">>)
    /\ log = <<MsgMiss>> => gate = "false"
    /\ Len(trace) > 1 => log = <<MsgMiss>>
    /\ (Finished /\ gate = "true") => log = <<MsgReuse>>
    /\ (Finished /\ gate = "false") => (log = <<MsgMiss>> /\ Len(trace) > 1)

C20_Witness ==
    /\ pc = "failed"
    /\ trace = <<"isAuthStateValid", "goto">>
    /\ log = <<MsgMiss>>

\* a cookie array whose elements are all cookie objects
CookieObjects(f) ==
    /\ f.kind = "json"
    /\ f.doc.top = "object"
    /\ f.doc.cookies = "array"
    /\ Len(f.doc.items) > 0
    /\ \A i \in 1..Len(f.doc.items) : f.doc.items[i].t = "cookie"

\* `expires` zero, negative, missing or not numeric
ZeroNegativeMissingOrNonNumeric(e) ==
    \/ e.t = "num" /\ e.v <= 0
    \/ e.t \in {"undefined", "null", "str", "true"}

\* `expires` whose conversion to a number is zero, negative or fails
NotPositive(e) ==
    \/ e.t \in {"num", "numstr"} /\ e.v <= 0
    \/ e.t \in {"undefined", "null", "str"}

\* `expires` that is not a number and converts to a positive one
PositiveNonNumber(e) ==
    \/ e.t = "numstr" /\ e.v > 0
    \/ e.t = "true"

\* C25 as stated: cookies whose `expires` is zero, negative, missing or
\* non-numeric never make the gate return false.
C25_Original ==
    (/\ GateDone
     /\ CookieObjects(fileAtStart)
     /\ \A e \in ExpiresOf(fileAtStart) : ZeroNegativeMissingOrNonNumeric(e))
        => gate = "true"

\* C25 amended: cookies whose `expires` converts to zero, to a negative
\* number or to no number at all never make the gate return false; a value
\* that is not a number and converts to a positive one (`true`, "1") is
\* compared like that number and makes it return false once that has passed.
C25_NotPositiveNeverExpires ==
    (GateDone /\ CookieObjects(fileAtStart)) =>
        /\ (\A e \in ExpiresOf(fileAtStart) : NotPositive(e)) => gate = "true"
        /\ (\E e \in ExpiresOf(fileAtStart) :
               PositiveNonNumber(e) /\ e.v * MsPerSecond < gateAt)
              => gate = "false"

C25_Witness ==
    /\ GateDone
    /\ gate = "true"
    /\ Len(fileAtStart.doc.items) = 2
    /\ fileAtStart.doc.items[1] = CookieObj(Num(0))
    /\ fileAtStart.doc.items[2] = CookieObj(OtherStr)
    /\ gateAt > MsPerSecond

\* C27: on an unchanged file the verdict is monotone in time: after the gate
\* has returned false it returns false at every later instant, and the
\* verdict is true again only once a capture has rewritten the file.
C27_FalseStaysFalse ==
    (GateDone /\ gate = "false") =>
        \/ IsAuthStateValid(file, now) = "false"
        \/ /\ writes > 0
           /\ "storageState" \in {trace[i] : i \in 1..Len(trace)}
           /\ file = StorageStateDoc(context)

C27_Witness ==
    /\ GateDone
    /\ gate = "false"
    /\ file = fileAtStart
    /\ Len(file.doc.items) > 0
    /\ now > gateAt
    /\ IsAuthStateValid(file, now) = "false"

\* the state storageState() writes for a context without cookies
ZeroCookies(f) ==
    \E o \in 0..1 : f = StorageStateDoc(Context(<<>>, o))

\* C28 as stated: when the file holds a captured state with zero cookies the
\* cache never hits: the run reports invalid, repeats the login flow and
\* rewrites the file.
C28_Original ==
    (ZeroCookies(fileAtStart) /\ Finished) =>
        /\ gate = "false"
        /\ IsPrefix(<<"isAuthStateValid", "goto">>, trace)
        /\ writes = 1

\* C28 amended: when the file holds a captured state with zero cookies the
\* cache never hits: every attempt reports invalid and starts the login
\* flow, and an attempt that completes has rewritten the file.
C28_ZeroCookiesNeverHit ==
    ZeroCookies(fileAtStart) =>
        /\ gate # "true"
        /\ log # <<MsgReuse>>
        /\ Finished => IsPrefix(<<"isAuthStateValid", "goto">>, trace)
        /\ pc = "done" => (trace = MissCalls /\ writes = 1)

C28_Witness ==
    /\ ZeroCookies(fileAtStart)
    /\ pc = "done"
    /\ trace = MissCalls
    /\ writes = 1
    /\ ZeroCookies(file)

(* ================= properties of the api project ======================= *)

\* C21: the api project is independent of the authentication setup: a test
\* of it that has not started can start in every state of the setup project,
\* before it has finished and after it has failed for good, and its request
\* context is never created from the session file.
C21_ApiIndependentOfSetup ==
    \A t \in ApiTests :
        /\ api[t].loaded = NotLoaded
        /\ api[t].st = "waiting" => ENABLED ApiNewContext(t)

C21_Witness ==
    /\ pc = "failed"
    /\ retriesLeft = 0
    /\ \A p \in UIProjects : ui[p].st = "skipped"
    /\ api[1].st = "ended"
    /\ api[2].st = "body"
    /\ api[2].loaded = NotLoaded

\* C30: every test that uses apiContext gets a context of its own, created
\* before its body; the context is open while the body runs, is disposed
\* exactly once when the body has finished, whether it passed or failed, and
\* is never disposed before.
C30_ContextDisposedOnceAfterUse ==
    \A t \in ApiTests :
        /\ api[t].st = "waiting" <=> api[t].ctx = 0
        /\ \A u \in ApiTests :
              (u # t /\ api[t].ctx # 0) => api[u].ctx # api[t].ctx
        /\ api[t].ctx # 0 =>
              LET c == apiContexts[api[t].ctx]
              IN  /\ ~c.usedClosed
                  /\ api[t].st \in {"body", "teardown"} =>
                        (c.open /\ c.disposals = 0)
                  /\ api[t].st = "ended" => (~c.open /\ c.disposals = 1)

C30_Witness ==
    /\ api[1].st = "ended"
    /\ ~api[1].ok
    /\ api[2].st = "teardown"
    /\ api[1].ctx = 2
    /\ api[2].ctx = 1
    /\ ~apiContexts[2].open
    /\ apiContexts[1].open

(* ============== properties of validateRequiredEnvVars ================== *)

\* a variable that is unset, empty or whitespace-only
Unset(varName) == env[varName] \in {"unset", "empty", "blank"}

\* C22: validateRequiredEnvVars throws if and only if a listed variable is
\* unset, empty or whitespace-only; the error names exactly those variables;
\* when all are set it returns, and the environment is as it was.
C22_ThrowsIffSomeVariableUnset ==
    result # NotCalled =>
        /\ result.kind = "thrown" <=>
              \E i \in 1..Len(requiredVars) : Unset(requiredVars[i])
        /\ result.kind = "returned" <=>
              \A i \in 1..Len(requiredVars) : ~Unset(requiredVars[i])
        /\ \A v \in VarNames :
              (\E j \in 1..Len(result.names) : result.names[j] = v) <=>
                  (\E i \in 1..Len(requiredVars) :
                      requiredVars[i] = v /\ Unset(v))

C22_Witness ==
    /\ result.kind = "thrown"
    /\ requiredVars = <<1, 2>>
    /\ env[1] = "blank"
    /\ env[2] = "padded"
    /\ result.names = <<1>>

(* ===================== properties of a suite run ======================= *)

\* C23 as stated: within one suite run the bootstrap is never executed
\* again: a bootstrap that has failed is not started a second time.
C23_Original ==
    [][~(pc = "failed" /\ pc' = "start")]_vars

\* C23 amended: each attempt of the bootstrap is single-pass, the gate is
\* evaluated once and the login flow runs at most once in it; the bootstrap
\* is started again only after an attempt has failed, and each new attempt
\* uses up one of the configured retries (1 locally, 2 on CI).
C23_SinglePassPerAttempt ==
    /\ [](IsPrefix(trace, MissCalls) /\ retriesLeft \in 0..Retries(TRUE))
    /\ [][(pc' = "start" /\ pc # "start") =>
             (pc = "failed" /\ retriesLeft' = retriesLeft - 1)]_vars

C23_Witness ==
    /\ retriesLeft = 0
    /\ pc = "done"
    /\ trace = MissCalls
    /\ fileAtStart = Malformed
    /\ writes = 1

(* ========== properties of the call, statement by statement ============= *)

\* the call has produced its result
Returned == call.pc \in {"ret", "done"}

\* the content f with its cookies in every order
Reordered(f) ==
    LET n == Len(f.doc.items)
    IN  {[f EXCEPT !.doc.items = [i \in 1..n |-> f.doc.items[pi[i]]]] :
            pi \in Permutations(1..n)}

\* C24: within one call the instant is computed once and every cookie is
\* compared against it: the result is the verdict on the content read at
\* that one instant, however much time passes between two comparisons, and
\* it is the same for every order of the cookies.
C24_OneInstantPerCall ==
    Returned =>
        \A f \in Reordered(call.raw) :
            call.res = IsAuthStateValid(f, call.nowAt)

C24_Witness ==
    /\ Returned
    /\ call.res = "true"
    /\ Len(call.raw.doc.items) = 2
    /\ call.raw.doc.items[1].expires = Num(-1)
    /\ call.raw.doc.items[2].expires = Num(1)
    /\ call.nowAt < MsPerSecond
    /\ now > MsPerSecond

\* C26: when another process deletes, truncates or replaces the file
\* between the existence check and the read, the call still returns true or
\* false and never raises; when the read or the parse fails it returns
\* false and the bootstrap takes the cache-miss branch.
C26_RaceStillBoolean ==
    /\ call.res \in {"none", "true", "false"}
    /\ pc # "failed"
    /\ (call.pc = "done" /\ call.interfered /\ call.raw.kind # "json") =>
          /\ gate = "false"
          /\ pc \in {"miss", "login"}
          /\ pc = "login" => log = <<MsgMiss>>

C26_Witness ==
    /\ call.pc = "done"
    /\ call.interfered
    /\ IsAuthStateValid(fileAtStart, gateAt) = "true"
    /\ call.raw = Malformed
    /\ gate = "false"
    /\ pc = "login"
    /\ log = <<MsgMiss>>

(* ============== properties of two concurrent suite runs ================ *)

\* C29: nothing makes one bootstrap wait for another on the same path: in
\* every state a run that has not evaluated its gate can evaluate it, a run
\* that has logged in can start writing, and a finished run can create its
\* dependent contexts, whatever the other run is doing; so both can miss,
\* log in and write, and a context can load a file that is being written.
C29_NoMutualExclusion ==
    \A p \in Procs :
        /\ runs[p].pc = "start" => ENABLED RunGate(p)
        /\ runs[p].pc = "capture" => ENABLED RunWriteBegin(p)
        /\ (runs[p].pc = "done" /\ runs[p].loaded = NotLoaded) =>
              ENABLED RunStartUI(p)

C29_Witness ==
    /\ runs["A"].gate = "false"
    /\ runs["B"].gate = "false"
    /\ runs["A"].pc = "done"
    /\ runs["A"].writes = 1
    /\ runs["B"].pc = "writing"
    /\ runs["A"].loaded = Malformed

====
